---- MODULE Spec2Model ----
(***************************************************************************)
(* The limit order book matching engine of                                 *)
(* multi_order_type_orderbook_cpp/Orderbook.cpp: the two price-ordered     *)
(* side maps, the id index, the aggregated level-data index, and the       *)
(* public commands AddOrder, CancelOrder and ModifyOrder, and the pass of   *)
(* PruneGoodForDayOrders.  Spec runs whole commands one after another;     *)
(* SpecModify runs the three critical sections of ModifyOrder beside the   *)
(* commands of another thread, with `modifying` as the place ModifyOrder   *)
(* has reached; SpecSnapshot runs GetOrderInfos beside an AddOrder, with   *)
(* `snapshot` as the value GetOrderInfos returned; SpecPruner runs the     *)
(* thread of PruneGoodForDayOrders line by line beside the commands of     *)
(* other threads and the destructor, with `pruner` as the place and the    *)
(* collected ids of the thread, `shutdown_` as the flag and `destructor`   *)
(* as the place ~Orderbook has reached.                                    *)
(*                                                                         *)
(* Order objects are held through shared pointers in the code.  Here the   *)
(* objects live in `pool`, keyed by order id, the queues of bids_ and      *)
(* asks_ hold ids (the pointers) and orders_ is the set of ids of the id   *)
(* index (each entry's pointer and list iterator name the order of that    *)
(* id).                                                                    *)
(*                                                                         *)
(* Quantity is uint32.  A uint32 value v is written as the integer of      *)
(* least magnitude congruent to v modulo 2^32, so 0xFFFFFFFF is -1 and     *)
(* 0xFFFFFFFB is -5.  Addition and subtraction modulo 2^32 are then plain  *)
(* integer addition and subtraction (the magnitudes stay far below 2^31),  *)
(* a test against zero is exact, and an unsigned comparison is ULe.        *)
(***************************************************************************)
EXTENDS Integers, Sequences, FiniteSets, TLC

\* ---------------------------------------------------------------- bounds
MaxOrderId == 3
MaxPrice == 2
MaxQuantity == 2
\* the most orders that rest on the book: no command is submitted that
\* would leave more
MaxResting == 2

OrderIds == 1..MaxOrderId
Prices == 1..MaxPrice
Quantities == 1..MaxQuantity

\* ------------------------------------------------------------ domain types
InvalidPrice == 0

Buy == "Buy"
Sell == "Sell"
Sides == {Buy, Sell}

GoodTillCancel == "GoodTillCancel"
FillAndKill == "FillAndKill"
FillOrKill == "FillOrKill"
GoodForDay == "GoodForDay"
Market == "Market"
OrderTypes == {GoodTillCancel, FillAndKill, FillOrKill, GoodForDay, Market}

\* What a read through a reference into a freed map node gives: the value
\* that was there (the allocator left the node's key alone) or the pattern
\* the allocator filled the freed node with (PoisonPrice, which is the price
\* of no level).  No other thread allocates while a command runs.
PoisonPrice == -1
StaleRead(intact, value) == [intact |-> intact, value |-> value]
IntactRead == StaleRead(TRUE, PoisonPrice)
StaleReads == {IntactRead, StaleRead(FALSE, PoisonPrice)}

\* What std::mutex::lock does when the calling thread already owns the
\* mutex (undefined behaviour): block for ever, raise std::system_error, or
\* acquire it once more.
RelockOutcomes == {"deadlock", "throw", "reenter"}

VARIABLES bids_, asks_, orders_, data_, pool, ordersMutex_, modifying, snapshot,
          pruner, shutdown_, destructor

vars == <<bids_, asks_, orders_, data_, pool, ordersMutex_, modifying, snapshot,
          pruner, shutdown_, destructor>>

\* ----------------------------------------------------------------- helpers
EmptyMap == [x \in {} |-> 0]

MapErase(m, k) == [x \in (DOMAIN m) \ {k} |-> m[x]]

MapPut(m, k, v) == [x \in (DOMAIN m) \cup {k} |-> IF x = k THEN v ELSE m[x]]

SetMax(S) == CHOOSE x \in S : \A y \in S : y <= x

SetMin(S) == CHOOSE x \in S : \A y \in S : x <= y

Min_Max(a, b) == IF a <= b THEN b ELSE a

Min(a, b) == IF a <= b THEN a ELSE b

\* a <= b on uint32 values, on their least-magnitude representatives
ULe(a, b) ==
    IF (a >= 0) = (b >= 0) THEN a <= b ELSE a >= 0

SeqErase_Head(s, x) == Tail(s)

\* the sequence s without its first occurrence of x (list::erase(iterator))
RECURSIVE SeqErase(_, _)
SeqErase(s, x) ==
    IF s = <<>> THEN <<>>
    ELSE IF Head(s) = x THEN Tail(s)
    ELSE <<Head(s)>> \o SeqErase(Tail(s), x)

\* orders_.contains(orderId), with orders_ as the set of its keys
Contains_MissesFirst(orders, orderId) == orderId \in orders \ {1}

Contains(orders, orderId) == orderId \in orders

\* ------------------------------------------------------------------- Order
Order_NothingRemaining(orderType, orderId, side, price, quantity) ==
    [orderType_ |-> orderType, orderId_ |-> orderId, side_ |-> side,
     price_ |-> price, initialQuantity_ |-> quantity,
     remainingQuantity_ |-> 0]

Order(orderType, orderId, side, price, quantity) ==
    [orderType_ |-> orderType, orderId_ |-> orderId, side_ |-> side,
     price_ |-> price, initialQuantity_ |-> quantity,
     remainingQuantity_ |-> quantity]

IsFilled(o) == o.remainingQuantity_ = 0

Fill(o, quantity) == [o EXCEPT !.remainingQuantity_ = @ - quantity]

ToGoodTillCancel_PriceOnly(o, price) == [o EXCEPT !.price_ = price]

ToGoodTillCancel(o, price) ==
    [o EXCEPT !.price_ = price, !.orderType_ = GoodTillCancel]

ToOrderPointer_GoodTillCancel(orderId, side, price, quantity, type) ==
    Order(GoodTillCancel, orderId, side, price, quantity)

\* OrderModify::ToOrderPointer
ToOrderPointer(orderId, side, price, quantity, type) ==
    Order(type, orderId, side, price, quantity)

\* -------------------------------------------------------------- book state
\* The engine's containers as one record, so that the handlers are operators.
Book(b, a, o, d, p) ==
    [bids_ |-> b, asks_ |-> a, orders_ |-> o, data_ |-> d, pool |-> p]

EmptyBook == Book(EmptyMap, EmptyMap, {}, EmptyMap, EmptyMap)

\* bids_ is ordered by descending price, asks_ by ascending price
BestBid(B) == SetMax(DOMAIN B.bids_)

BestAsk(B) == SetMin(DOMAIN B.asks_)

WorstBid(B) == SetMin(DOMAIN B.bids_)

WorstAsk_Best(B) == SetMin(DOMAIN B.asks_)

WorstAsk(B) == SetMax(DOMAIN B.asks_)

\* --------------------------------------------------------- level-data index
NoLevelData == [count_ |-> 0, quantity_ |-> 0]

UpdateLevelData(data, price, quantity, action) ==
    LET d0 == IF price \in DOMAIN data THEN data[price] ELSE NoLevelData
        count == d0.count_ + (IF action = "Remove" THEN -1
                              ELSE IF action = "Add" THEN 1 ELSE 0)
        qty == IF action \in {"Remove", "Match"}
               THEN d0.quantity_ - quantity
               ELSE d0.quantity_ + quantity
    IN  IF count = 0 THEN MapErase(data, price)
        ELSE MapPut(data, price, [count_ |-> count, quantity_ |-> qty])

OnOrderCancelled(data, order) ==
    UpdateLevelData(data, order.price_, order.remainingQuantity_, "Remove")

OnOrderAdded(data, order) ==
    UpdateLevelData(data, order.price_, order.initialQuantity_, "Add")

OnOrderMatched(data, price, quantity, isFullyFilled) ==
    UpdateLevelData(data, price, quantity,
                    IF isFullyFilled THEN "Remove" ELSE "Match")

\* ------------------------------------------------------ CancelOrderInternal
\* Lines 241-245 and 249-253: the order leaves the queue of its price, and
\* the price leaves the side map when the queue is empty.
EraseFromLevel_KeepEmpty(side, price, orderId) ==
    MapPut(side, price, SeqErase(side[price], orderId))

EraseFromLevel(side, price, orderId) ==
    IF SeqErase(side[price], orderId) = <<>> THEN MapErase(side, price)
    ELSE MapPut(side, price, SeqErase(side[price], orderId))

CancelOrderInternal(B, orderId) ==
    IF ~Contains(B.orders_, orderId) THEN B
    ELSE
      LET order == B.pool[orderId]
      IN  Book(IF order.side_ = Sell THEN B.bids_
               ELSE EraseFromLevel(B.bids_, order.price_, orderId),
               IF order.side_ = Sell
               THEN EraseFromLevel(B.asks_, order.price_, orderId)
               ELSE B.asks_,
               B.orders_ \ {orderId},
               OnOrderCancelled(B.data_, order), MapErase(B.pool, orderId))

\* Lines 219-225: CancelOrders cancels the ids in the order of the list.
RECURSIVE CancelOrders(_, _)
CancelOrders(B, orderIds) ==
    IF orderIds = <<>> THEN B
    ELSE CancelOrders(CancelOrderInternal(B, Head(orderIds)), Tail(orderIds))

\* ------------------------------------------------------------------ CanMatch
CanMatch_NonEmpty(B, side, price) ==
    IF side = Buy THEN DOMAIN B.asks_ # {} ELSE DOMAIN B.bids_ # {}

CanMatch(B, side, price) ==
    IF side = Buy
    THEN IF DOMAIN B.asks_ = {} THEN FALSE ELSE price >= BestAsk(B)
    ELSE IF DOMAIN B.bids_ = {} THEN FALSE ELSE price <= BestBid(B)

\* -------------------------------------------------------------- CanFullyFill
\* The walk over data_ in one iteration order, given as a sequence of prices.
RECURSIVE FullyFillWalk(_, _, _, _, _, _)
FullyFillWalk(data, levels, side, price, threshold, quantity) ==
    IF levels = <<>> THEN FALSE
    ELSE
      LET levelPrice == Head(levels)
          rest == Tail(levels)
      IN  IF (side = Buy /\ threshold > levelPrice)
             \/ (side = Sell /\ threshold < levelPrice)
          THEN FullyFillWalk(data, rest, side, price, threshold, quantity)
          ELSE IF (side = Buy /\ levelPrice > price)
                  \/ (side = Sell /\ levelPrice < price)
          THEN FullyFillWalk(data, rest, side, price, threshold, quantity)
          ELSE IF ULe(quantity, data[levelPrice].quantity_) THEN TRUE
          ELSE FullyFillWalk(data, rest, side, price, threshold,
                             quantity - data[levelPrice].quantity_)

\* the keys of a map, ascending when up and descending otherwise
RECURSIVE KeySeq(_, _)
KeySeq(S, up) ==
    IF S = {} THEN <<>>
    ELSE LET k == IF up THEN SetMin(S) ELSE SetMax(S)
         IN  <<k>> \o KeySeq(S \ {k}, up)

\* data_ is an unordered map: `up` picks the order in which it is walked.
CanFullyFill(B, side, price, quantity, up) ==
    IF ~CanMatch(B, side, price) THEN FALSE
    ELSE FullyFillWalk(B.data_, KeySeq(DOMAIN B.data_, up), side, price,
                       IF side = Buy THEN BestAsk(B) ELSE BestBid(B),
                       quantity)

\* --------------------------------------------------------------- MatchOrders
TradeInfo(orderId, price, quantity) ==
    [orderId_ |-> orderId, price_ |-> price, quantity_ |-> quantity]

Trade_OnePrice(bidTrade, askTrade) ==
    [bidTrade_ |-> [bidTrade EXCEPT !.price_ = askTrade.price_],
     askTrade_ |-> askTrade]

Trade(bidTrade, askTrade) == [bidTrade_ |-> bidTrade, askTrade_ |-> askTrade]

\* The value read through bidPrice / askPrice after the map node that holds
\* it was erased (lines 435-436 and 441-442).
DanglingRead(price, stale) == IF stale.intact THEN price ELSE stale.value

\* Lines 411-421: a filled order leaves the id index.
EraseFilled_Kept(orders, order) == orders

EraseFilled(orders, order) ==
    IF IsFilled(order) THEN orders \ {order.orderId_} ELSE orders

\* Line 398: the loop stops when the best bid is below the best ask.
StopsMatching_AtEqual(bidPrice, askPrice) == bidPrice <= askPrice

StopsMatching(bidPrice, askPrice) == bidPrice < askPrice

\* The state of a matching run: the book and the trades made so far.
Matching(B, trades) == [book |-> B, trades |-> trades]

\* Lines 409-430: the two heads trade `quantity`; bid and ask are the two
\* orders after Fill.  A filled head leaves its queue and the id index, the
\* trade is recorded and data_ is updated for both prices.
TradeHeads(m, bidPrice, askPrice, bid, ask, quantity) ==
    Matching(
      Book(IF IsFilled(bid)
           THEN MapPut(m.book.bids_, bidPrice, Tail(m.book.bids_[bidPrice]))
           ELSE m.book.bids_,
           IF IsFilled(ask)
           THEN MapPut(m.book.asks_, askPrice, Tail(m.book.asks_[askPrice]))
           ELSE m.book.asks_,
           EraseFilled(EraseFilled(m.book.orders_, bid), ask),
           OnOrderMatched(
             OnOrderMatched(m.book.data_, bid.price_, quantity, IsFilled(bid)),
             ask.price_, quantity, IsFilled(ask)),
           \* a filled order's object dies with the last pointer to it
           [id \in (DOMAIN m.book.pool)
                     \ ((IF IsFilled(bid) THEN {bid.orderId_} ELSE {})
                         \cup (IF IsFilled(ask) THEN {ask.orderId_} ELSE {}))
              |-> IF id = bid.orderId_ THEN bid
                  ELSE IF id = ask.orderId_ THEN ask ELSE m.book.pool[id]]),
      Append(m.trades,
             Trade(TradeInfo(bid.orderId_, bid.price_, quantity),
                   TradeInfo(ask.orderId_, ask.price_, quantity))))

\* One pass of the inner loop, lines 401-431: the heads of the two levels
\* trade until one of the two queues is empty.
\* Lines 403-430: one turn of the inner loop.
MatchHeads(m, bidPrice, askPrice) ==
    LET bid == m.book.pool[Head(m.book.bids_[bidPrice])]
        ask == m.book.pool[Head(m.book.asks_[askPrice])]
        quantity == Min(bid.remainingQuantity_, ask.remainingQuantity_)
    IN  TradeHeads(m, bidPrice, askPrice, Fill(bid, quantity),
                   Fill(ask, quantity), quantity)

RECURSIVE MatchLevel(_, _, _)
MatchLevel(m, bidPrice, askPrice) ==
    IF m.book.bids_[bidPrice] = <<>> \/ m.book.asks_[askPrice] = <<>> THEN m
    ELSE MatchLevel(MatchHeads(m, bidPrice, askPrice), bidPrice, askPrice)

\* Lines 433-443: an emptied level leaves its side, and data_ loses the
\* entry of the price read through the erased node.
EraseEmptyLevels(m, bidPrice, askPrice, stale) ==
    LET B1 == m.book
        B2 == IF B1.bids_[bidPrice] = <<>>
              THEN [B1 EXCEPT
                      !.bids_ = MapErase(@, bidPrice),
                      !.data_ = MapErase(@, DanglingRead(bidPrice, stale))]
              ELSE B1
        B3 == IF B2.asks_[askPrice] = <<>>
              THEN [B2 EXCEPT
                      !.asks_ = MapErase(@, askPrice),
                      !.data_ = MapErase(@, DanglingRead(askPrice, stale))]
              ELSE B2
    IN  Matching(B3, m.trades)

\* The outer loop, lines 390-444.
RECURSIVE MatchLoop(_, _)
MatchLoop(m, stale) ==
    IF DOMAIN m.book.bids_ = {} \/ DOMAIN m.book.asks_ = {} THEN m
    ELSE
      LET bidPrice == BestBid(m.book)
          askPrice == BestAsk(m.book)
      IN  IF StopsMatching(bidPrice, askPrice) THEN m
          ELSE MatchLoop(EraseEmptyLevels(MatchLevel(m, bidPrice, askPrice),
                                          bidPrice, askPrice, stale),
                         stale)

\* The order at the top of the bids (asks) when it is a FillAndKill order:
\* the order lines 447-461 cancel.  {} when there is none.
FakAtTopOfBids(B) ==
    IF DOMAIN B.bids_ = {} THEN {}
    ELSE LET id == Head(B.bids_[BestBid(B)])
         IN  IF B.pool[id].orderType_ = FillAndKill THEN {id} ELSE {}

FakAtTopOfAsks(B) ==
    IF DOMAIN B.asks_ = {} THEN {}
    ELSE LET id == Head(B.asks_[BestAsk(B)])
         IN  IF B.pool[id].orderType_ = FillAndKill THEN {id} ELSE {}

\* A handler's result: the book it leaves, the trades, how the call ended
\* ("returned", "threw", "deadlock") and whether it tried to lock
\* ordersMutex_ while holding it.
Result(B, trades, outcome, relock) ==
    [book |-> B, trades |-> trades, outcome |-> outcome, relock |-> relock]

\* Lines 446-461, run by AddOrder with ordersMutex_ held, after the loop
\* left m.  CancelOrder (lines 545-550) locks ordersMutex_: the first such
\* call relocks the mutex the thread holds, and `ub` is what that does.
\* When it acquires the mutex once more, CancelOrder's unlock leaves the
\* mutex free, and a second CancelOrder locks and unlocks it as usual.
CancelFillAndKill(m, ub) ==
    LET B1 == m.book
        bidFak == FakAtTopOfBids(B1)
        B2 == IF bidFak = {} THEN B1
              ELSE CancelOrderInternal(B1, CHOOSE id \in bidFak : TRUE)
        askFak == FakAtTopOfAsks(B2)
        B3 == IF askFak = {} THEN B2
              ELSE CancelOrderInternal(B2, CHOOSE id \in askFak : TRUE)
    IN  IF bidFak = {} /\ FakAtTopOfAsks(B1) = {}
        THEN Result(B1, m.trades, "returned", FALSE)
        ELSE IF ub = "reenter" THEN Result(B3, m.trades, "returned", TRUE)
        ELSE IF ub = "throw" THEN Result(B1, <<>>, "threw", TRUE)
        ELSE Result(B1, <<>>, "deadlock", TRUE)

MatchOrders(B, stale, ub) ==
    CancelFillAndKill(MatchLoop(Matching(B, <<>>), stale), ub)

\* ------------------------------------------------------------------ AddOrder
\* Lines 523 and 529: orders.push_back(order).
PushBack_Front(orders, orderId) == <<orderId>> \o orders

PushBack(orders, orderId) == Append(orders, orderId)

\* Lines 517-533: the order joins the tail of its level and the id index.
PlaceOrder(B, order) ==
    LET id == order.orderId_
        price == order.price_
        bids1 == IF order.side_ = Buy
                 THEN MapPut(B.bids_, price,
                             PushBack(IF price \in DOMAIN B.bids_
                                      THEN B.bids_[price] ELSE <<>>, id))
                 ELSE B.bids_
        asks1 == IF order.side_ = Buy THEN B.asks_
                 ELSE MapPut(B.asks_, price,
                             PushBack(IF price \in DOMAIN B.asks_
                                      THEN B.asks_[price] ELSE <<>>, id))
    IN  Book(bids1, asks1, B.orders_ \cup {id}, B.data_,
             MapPut(B.pool, id, order))

\* Lines 493-508: a Market order becomes GoodTillCancel at the worst price of
\* the other side; {} when the other side is empty and the order is dropped.
ConvertMarket(B, order) ==
    IF order.orderType_ # Market THEN {order}
    ELSE IF order.side_ = Buy /\ DOMAIN B.asks_ # {}
    THEN {ToGoodTillCancel(order, WorstAsk(B))}
    ELSE IF order.side_ = Sell /\ DOMAIN B.bids_ # {}
    THEN {ToGoodTillCancel(order, WorstBid(B))}
    ELSE {}

\* Lines 488-535: the book with the order placed and counted in data_; {}
\* when AddOrder returns before it places the order.
AddOrderPlace(B, order0, up) ==
    IF Contains(B.orders_, order0.orderId_) THEN {}
    ELSE IF ConvertMarket(B, order0) = {} THEN {}
    ELSE
      LET order == CHOOSE o \in ConvertMarket(B, order0) : TRUE
      IN  IF order.orderType_ = FillAndKill
             /\ ~CanMatch(B, order.side_, order.price_)
          THEN {}
          ELSE IF order.orderType_ = FillOrKill
                  /\ ~CanFullyFill(B, order.side_, order.price_,
                                   order.initialQuantity_, up)
          THEN {}
          ELSE {[PlaceOrder(B, order) EXCEPT !.data_ = OnOrderAdded(@, order)]}

AddOrder(B, order0, stale, ub, up) ==
    IF AddOrderPlace(B, order0, up) = {}
    THEN Result(B, <<>>, "returned", FALSE)
    ELSE MatchOrders(CHOOSE B2 \in AddOrderPlace(B, order0, up) : TRUE,
                     stale, ub)

\* --------------------------------------------------------------- ModifyOrder
\* Lines 557-573: the type is read under the lock, then CancelOrder and
\* AddOrder each lock for themselves.  Here no other thread runs in between.
ModifyOrder(B, orderId, side, price, quantity, stale, ub, up) ==
    IF ~Contains(B.orders_, orderId) THEN Result(B, <<>>, "returned", FALSE)
    ELSE
      LET orderType == B.pool[orderId].orderType_
          B1 == CancelOrderInternal(B, orderId)
      IN  AddOrder(B1, ToOrderPointer(orderId, side, price, quantity, orderType),
                   stale, ub, up)

\* ----------------------------------------------------- PruneGoodForDayOrders
\* Lines 195-209: the ids the scan of orders_ collects.
GoodForDayOrderIds_All(B) == B.orders_

GoodForDayOrderIds(B) ==
    {id \in B.orders_ : B.pool[id].orderType_ = GoodForDay}

\* orders_ is an unordered map: the scan meets the ids in any order.
ScanOrders(S) ==
    {s \in [1..Cardinality(S) -> S] : \A i, j \in 1..Cardinality(S) :
                                          i # j => s[i] # s[j]}

\* One pass after a timeout of the wait (lines 195-211), with no other
\* command between the scan and CancelOrders: the books it can leave.
PruneGoodForDayOrders(B) ==
    {CancelOrders(B, orderIds) : orderIds \in ScanOrders(GoodForDayOrderIds(B))}

\* ---------------------------------------------------------------------- Size
Size(B) == Cardinality(B.orders_)

\* ------------------------------------------------------------- GetOrderInfos
RECURSIVE SumRemaining(_, _)
SumRemaining(p, ids) ==
    IF ids = <<>> THEN 0
    ELSE p[Head(ids)].remainingQuantity_ + SumRemaining(p, Tail(ids))

LevelInfo(price, quantity) == [price_ |-> price, quantity_ |-> quantity]

RECURSIVE LevelInfos(_, _, _)
LevelInfos(p, side, prices) ==
    IF prices = <<>> THEN <<>>
    ELSE <<LevelInfo(Head(prices), SumRemaining(p, side[Head(prices)]))>>
           \o LevelInfos(p, side, Tail(prices))

GetOrderInfos(B) ==
    [bids_ |-> LevelInfos(B.pool, B.bids_, KeySeq(DOMAIN B.bids_, FALSE)),
     asks_ |-> LevelInfos(B.pool, B.asks_, KeySeq(DOMAIN B.asks_, TRUE))]

\* ------------------------------------------------------------ the state machine
TheBook == Book(bids_, asks_, orders_, data_, pool)

\* The state a call leaves.  A call that blocks in lock() keeps ordersMutex_
\* for ever; one that returns or throws has released it.
Commit(r) ==
    /\ Cardinality(r.book.orders_) <= MaxResting
    /\ bids_' = r.book.bids_
    /\ asks_' = r.book.asks_
    /\ orders_' = r.book.orders_
    /\ data_' = r.book.data_
    /\ pool' = r.book.pool
    /\ ordersMutex_' = IF r.outcome = "deadlock" THEN "client" ELSE "free"

Init ==
    /\ bids_ = EmptyMap
    /\ asks_ = EmptyMap
    /\ orders_ = {}
    /\ data_ = EmptyMap
    /\ pool = EmptyMap
    /\ ordersMutex_ = "free"
    /\ modifying = [pc |-> "idle"]
    /\ snapshot = <<>>
    /\ pruner = [pc |-> "deadline", orderIds |-> <<>>]
    /\ shutdown_ = FALSE
    /\ destructor = "alive"

\* The orders a client submits: a Market order carries InvalidPrice.
NewOrders ==
    {Order(t, id, s, p, q) : t \in OrderTypes \ {Market}, id \in OrderIds,
                             s \in Sides, p \in Prices, q \in Quantities}
    \cup {Order(Market, id, s, InvalidPrice, q) :
             id \in OrderIds, s \in Sides, q \in Quantities}

\* The choices that can matter to a call: a stale read needs an erased
\* level, so a crossing order; the walk order of data_ needs a FillOrKill.
StaleChoices(B, order) ==
    IF order.orderType_ = Market \/ CanMatch(B, order.side_, order.price_)
    THEN StaleReads ELSE {IntactRead}

WalkChoices(order) ==
    IF order.orderType_ = FillOrKill THEN BOOLEAN ELSE {TRUE}

\* The relock outcomes matter to a call that relocks ordersMutex_ alone.
WithRelock(r, B, order, stale, up) ==
    IF r.relock
    THEN {AddOrder(B, order, stale, ub, up) : ub \in RelockOutcomes}
    ELSE {r}

\* The results MatchOrders can have on a book with the order placed.
WithMatchRelock(r, B, stale) ==
    IF r.relock
    THEN {MatchOrders(B, stale, ub) : ub \in RelockOutcomes}
    ELSE {r}

\* The results AddOrder(order) can have on book B.
AddOrderResults(B, order) ==
    UNION {WithRelock(AddOrder(B, order, stale, "reenter", up),
                      B, order, stale, up) :
             stale \in StaleChoices(B, order), up \in WalkChoices(order)}

DoAddOrder ==
    /\ ordersMutex_ = "free"
    /\ \E order \in NewOrders :
         \E r \in AddOrderResults(TheBook, order) :
           Commit(r)
    /\ UNCHANGED <<modifying, snapshot, pruner, shutdown_, destructor>>

DoCancelOrder ==
    /\ ordersMutex_ = "free"
    /\ \E orderId \in OrderIds :
         \E r \in {Result(CancelOrderInternal(TheBook, orderId), <<>>,
                          "returned", FALSE)} :
           Commit(r)
    /\ UNCHANGED <<modifying, snapshot, pruner, shutdown_, destructor>>

\* The results ModifyOrder can have on book B.
ModifyOrderResults(B, orderId, side, price, quantity) ==
    IF ~Contains(B.orders_, orderId) THEN {Result(B, <<>>, "returned", FALSE)}
    ELSE
      LET order == ToOrderPointer(orderId, side, price, quantity,
                                  B.pool[orderId].orderType_)
          B1 == CancelOrderInternal(B, orderId)
      IN  UNION {{ModifyOrder(B, orderId, side, price, quantity, stale, ub, up) :
                    ub \in IF AddOrder(B1, order, stale, "reenter", up).relock
                           THEN RelockOutcomes ELSE {"reenter"}} :
                 stale \in StaleChoices(B1, order), up \in WalkChoices(order)}

DoModifyOrder ==
    /\ ordersMutex_ = "free"
    /\ \E orderId \in OrderIds, side \in Sides, price \in Prices,
          quantity \in Quantities :
         \E r \in ModifyOrderResults(TheBook, orderId, side, price, quantity) :
           Commit(r)
    /\ UNCHANGED <<modifying, snapshot, pruner, shutdown_, destructor>>

\* The pruner's wait times out and its pass runs between two commands.
DoPruneGoodForDayOrders ==
    /\ ordersMutex_ = "free"
    /\ \E B \in PruneGoodForDayOrders(TheBook) :
         Commit(Result(B, <<>>, "returned", FALSE))
    /\ UNCHANGED <<modifying, snapshot, pruner, shutdown_, destructor>>

Next ==
    \/ DoAddOrder
    \/ DoCancelOrder
    \/ DoModifyOrder
    \/ DoPruneGoodForDayOrders

Spec == Init /\ [][Next]_vars

\* ------------------------------------------- ModifyOrder beside another thread
\* The orders the other threads submit in the specifications with threads.
ThreadOrders == {o \in NewOrders : o.orderType_ = GoodTillCancel}

\* AddOrder and CancelOrder of another thread: each holds ordersMutex_ from
\* its first line to its last.
ThreadAddOrder ==
    /\ ordersMutex_ = "free"
    /\ \E order \in ThreadOrders :
         \E r \in AddOrderResults(TheBook, order) :
           Commit(r)
    /\ UNCHANGED <<modifying, snapshot, pruner, shutdown_, destructor>>

ThreadCancelOrder ==
    /\ ordersMutex_ = "free"
    /\ \E orderId \in OrderIds :
         Commit(Result(CancelOrderInternal(TheBook, orderId), <<>>,
                       "returned", FALSE))
    /\ UNCHANGED <<modifying, snapshot, pruner, shutdown_, destructor>>

\* Lines 561-569: ModifyOrder locks ordersMutex_, reads the type of the live
\* order and unlocks.
ModifyLookup ==
    /\ ordersMutex_ = "free"
    /\ modifying.pc = "idle"
    /\ \E orderId \in OrderIds :
         /\ Contains(orders_, orderId)
         /\ modifying' = [pc |-> "CancelOrder", orderId |-> orderId,
                          orderType |-> pool[orderId].orderType_]
    /\ UNCHANGED <<bids_, asks_, orders_, data_, pool, ordersMutex_, snapshot,
                   pruner, shutdown_, destructor>>

\* Line 571: CancelOrder locks ordersMutex_ for itself.
ModifyCancel ==
    /\ ordersMutex_ = "free"
    /\ modifying.pc = "CancelOrder"
    /\ Commit(Result(CancelOrderInternal(TheBook, modifying.orderId), <<>>,
                     "returned", FALSE))
    /\ modifying' = [modifying EXCEPT !.pc = "AddOrder"]
    /\ UNCHANGED <<snapshot, pruner, shutdown_, destructor>>

\* Line 572: AddOrder locks ordersMutex_ for itself.  The side, price and
\* quantity of the request are not read before this line.
ModifyAdd ==
    /\ ordersMutex_ = "free"
    /\ modifying.pc = "AddOrder"
    /\ \E side \in Sides, price \in Prices, quantity \in Quantities :
         \E r \in AddOrderResults(TheBook,
                                  ToOrderPointer(modifying.orderId, side, price,
                                                 quantity, modifying.orderType)) :
           Commit(r)
    /\ modifying' = [pc |-> "idle"]
    /\ UNCHANGED <<snapshot, pruner, shutdown_, destructor>>

NextModify ==
    \/ ThreadAddOrder
    \/ ThreadCancelOrder
    \/ ModifyLookup
    \/ ModifyCancel
    \/ ModifyAdd

SpecModify == Init /\ [][NextModify]_vars

\* ----------------------------------------- GetOrderInfos beside another thread
\* AddOrder of another thread up to line 535: it holds ordersMutex_ and has
\* placed the order.
AddOrderBegin ==
    /\ ordersMutex_ = "free"
    /\ snapshot = <<>>
    /\ Cardinality(orders_) < MaxResting
    /\ \E order \in ThreadOrders :
         \E B2 \in UNION {AddOrderPlace(TheBook, order, up) :
                            up \in WalkChoices(order)} :
           /\ bids_' = B2.bids_
           /\ asks_' = B2.asks_
           /\ orders_' = B2.orders_
           /\ data_' = B2.data_
           /\ pool' = B2.pool
    /\ ordersMutex_' = "AddOrder"
    /\ UNCHANGED <<modifying, snapshot, pruner, shutdown_, destructor>>

\* Line 537: MatchOrders, and the return of AddOrder.
AddOrderEnd ==
    /\ ordersMutex_ = "AddOrder"
    /\ snapshot = <<>>
    /\ \E stale \in StaleReads :
         \E r \in WithMatchRelock(MatchOrders(TheBook, stale, "reenter"),
                                  TheBook, stale) :
           Commit(r)
    /\ UNCHANGED <<modifying, snapshot, pruner, shutdown_, destructor>>

SnapshotCancelOrder ==
    /\ snapshot = <<>>
    /\ ThreadCancelOrder

\* Lines 588-609: GetOrderInfos locks nothing, so it runs whatever
\* ordersMutex_ is, and reads the containers as they are.
ReadOrderInfos ==
    /\ snapshot = <<>>
    /\ snapshot' = <<GetOrderInfos(TheBook)>>
    /\ UNCHANGED <<bids_, asks_, orders_, data_, pool, ordersMutex_, modifying,
                   pruner, shutdown_, destructor>>

\* the caller has looked at the OrderbookLevelInfos
DropOrderInfos ==
    /\ snapshot # <<>>
    /\ snapshot' = <<>>
    /\ UNCHANGED <<bids_, asks_, orders_, data_, pool, ordersMutex_, modifying,
                   pruner, shutdown_, destructor>>

NextSnapshot ==
    \/ AddOrderBegin
    \/ AddOrderEnd
    \/ SnapshotCancelOrder
    \/ ReadOrderInfos
    \/ DropOrderInfos

SpecSnapshot == Init /\ [][NextSnapshot]_vars

\* --------------------------------- the pruning thread beside the destructor
\* The orders the other threads submit beside the pruning thread: resting
\* orders of the two types the scan tells apart.
PrunerOrders ==
    {o \in NewOrders : o.side_ = Buy
                         /\ o.orderType_ \in {GoodForDay, GoodTillCancel}}

\* The end of a block that holds a std::unique_lock or std::scoped_lock on
\* ordersMutex_ (lines 193, 209, 225), and the release inside wait_for.
Unlock_Kept(mutex) == mutex

Unlock(mutex) == "free"

\* Line 190, left operand: shutdown_.load(std::memory_order_acquire).
ShutdownRequested_Never(flag) == FALSE

ShutdownRequested(flag) == flag

PrunerAddOrder ==
    /\ ordersMutex_ = "free"
    /\ destructor = "alive"
    /\ \E order \in PrunerOrders :
         \E r \in AddOrderResults(TheBook, order) :
           Commit(r)
    /\ UNCHANGED <<modifying, snapshot, pruner, shutdown_, destructor>>

PrunerCancelOrder ==
    /\ destructor = "alive"
    /\ ThreadCancelOrder

\* Lines 173-188: the time to the next 16:00 is computed and ordersMutex_
\* is locked.
PrunerLock ==
    /\ pruner.pc = "deadline"
    /\ ordersMutex_ = "free"
    /\ ordersMutex_' = "pruner"
    /\ pruner' = [pruner EXCEPT !.pc = "load"]
    /\ UNCHANGED <<bids_, asks_, orders_, data_, pool, modifying, snapshot,
                   shutdown_, destructor>>

\* Lines 190 and 192: the flag is read; when it is set the thread returns.
PrunerLoadShutdown ==
    /\ pruner.pc = "load"
    /\ IF ShutdownRequested(shutdown_)
       THEN /\ pruner' = [pruner EXCEPT !.pc = "exited"]
            /\ ordersMutex_' = Unlock(ordersMutex_)
       ELSE /\ pruner' = [pruner EXCEPT !.pc = "wait_for"]
            /\ UNCHANGED ordersMutex_
    /\ UNCHANGED <<bids_, asks_, orders_, data_, pool, modifying, snapshot,
                   shutdown_, destructor>>

\* Line 191: wait_for releases ordersMutex_ and blocks the thread.
PrunerWaitFor ==
    /\ pruner.pc = "wait_for"
    /\ pruner' = [pruner EXCEPT !.pc = "waiting"]
    /\ ordersMutex_' = Unlock(ordersMutex_)
    /\ UNCHANGED <<bids_, asks_, orders_, data_, pool, modifying, snapshot,
                   shutdown_, destructor>>

\* The wait reaches its deadline.
PrunerTimeout ==
    /\ pruner.pc = "waiting"
    /\ pruner' = [pruner EXCEPT !.pc = "timeout"]
    /\ UNCHANGED <<bids_, asks_, orders_, data_, pool, ordersMutex_, modifying,
                   snapshot, shutdown_, destructor>>

\* A condition variable may wake a waiting thread with no notification;
\* wait_for without a predicate then returns no_timeout.
PrunerSpuriousWakeup ==
    /\ pruner.pc = "waiting"
    /\ pruner' = [pruner EXCEPT !.pc = "no_timeout"]
    /\ UNCHANGED <<bids_, asks_, orders_, data_, pool, ordersMutex_, modifying,
                   snapshot, shutdown_, destructor>>

\* Lines 191-193 after the deadline: wait_for locks ordersMutex_ again and
\* returns timeout, and the block ends.
PrunerWakeTimeout ==
    /\ pruner.pc = "timeout"
    /\ ordersMutex_ = "free"
    /\ pruner' = [pruner EXCEPT !.pc = "scan"]
    /\ ordersMutex_' = Unlock("pruner")
    /\ UNCHANGED <<bids_, asks_, orders_, data_, pool, modifying, snapshot,
                   shutdown_, destructor>>

\* Lines 191-192 after a wakeup: wait_for locks ordersMutex_ again and
\* returns no_timeout, and the thread returns.
PrunerWakeNoTimeout ==
    /\ pruner.pc = "no_timeout"
    /\ ordersMutex_ = "free"
    /\ pruner' = [pruner EXCEPT !.pc = "exited"]
    /\ ordersMutex_' = Unlock("pruner")
    /\ UNCHANGED <<bids_, asks_, orders_, data_, pool, modifying, snapshot,
                   shutdown_, destructor>>

\* Lines 195-209: the scan of orders_ under its own lock.
PrunerScan ==
    /\ pruner.pc = "scan"
    /\ ordersMutex_ = "free"
    /\ \E orderIds \in ScanOrders(GoodForDayOrderIds(TheBook)) :
         pruner' = [pc |-> "CancelOrders", orderIds |-> orderIds]
    /\ ordersMutex_' = Unlock("pruner")
    /\ UNCHANGED <<bids_, asks_, orders_, data_, pool, modifying, snapshot,
                   shutdown_, destructor>>

\* Lines 211 and 219-225: CancelOrders takes its own lock and cancels the
\* collected ids; the loop starts again.
PrunerCancelOrders ==
    /\ pruner.pc = "CancelOrders"
    /\ ordersMutex_ = "free"
    /\ \E B \in {CancelOrders(TheBook, pruner.orderIds)} :
         /\ bids_' = B.bids_
         /\ asks_' = B.asks_
         /\ orders_' = B.orders_
         /\ data_' = B.data_
         /\ pool' = B.pool
    /\ ordersMutex_' = Unlock("pruner")
    /\ pruner' = [pc |-> "deadline", orderIds |-> <<>>]
    /\ UNCHANGED <<modifying, snapshot, shutdown_, destructor>>

\* Line 476: ~Orderbook sets the flag; it does not lock ordersMutex_.
DestructorStore ==
    /\ destructor = "alive"
    /\ shutdown_' = TRUE
    /\ destructor' = "notify_one"
    /\ UNCHANGED <<bids_, asks_, orders_, data_, pool, ordersMutex_, modifying,
                   snapshot, pruner>>

\* Line 477: notify_one wakes the thread when it is blocked in wait_for and
\* does nothing otherwise.
DestructorNotifyOne ==
    /\ destructor = "notify_one"
    /\ destructor' = "join"
    /\ pruner' = IF pruner.pc = "waiting"
                 THEN [pruner EXCEPT !.pc = "no_timeout"]
                 ELSE pruner
    /\ UNCHANGED <<bids_, asks_, orders_, data_, pool, ordersMutex_, modifying,
                   snapshot, shutdown_>>

\* Line 478: join returns when the thread has returned.
DestructorJoin ==
    /\ destructor = "join"
    /\ pruner.pc = "exited"
    /\ destructor' = "joined"
    /\ UNCHANGED <<bids_, asks_, orders_, data_, pool, ordersMutex_, modifying,
                   snapshot, pruner, shutdown_>>

PrunerStep ==
    \/ PrunerLock
    \/ PrunerLoadShutdown
    \/ PrunerWaitFor
    \/ PrunerTimeout
    \/ PrunerWakeTimeout
    \/ PrunerWakeNoTimeout
    \/ PrunerScan
    \/ PrunerCancelOrders

DestructorStep ==
    \/ DestructorStore
    \/ DestructorNotifyOne
    \/ DestructorJoin

NextPruner ==
    \/ PrunerAddOrder
    \/ PrunerCancelOrder
    \/ PrunerStep
    \/ PrunerSpuriousWakeup
    \/ DestructorStep

\* Each thread that can run does run, a pending timed wait times out, and
\* the mutex is granted to a thread that waits for it.  No fairness is put
\* on the spurious wakeup or on the commands of the other threads.
SpecPruner ==
    /\ Init
    /\ [][NextPruner]_vars
    /\ WF_vars(PrunerStep)
    /\ WF_vars(DestructorStep)

\* ------------------------------------------------------------ what is checked
\* the orders resting at price p, bids and asks together
RestingAt(B, p) ==
    (IF p \in DOMAIN B.bids_ THEN B.bids_[p] ELSE <<>>)
      \o (IF p \in DOMAIN B.asks_ THEN B.asks_[p] ELSE <<>>)

\* data[p] of book B is the count and the summed remaining quantity of the
\* orders resting at p, and is absent when none rests there
LevelExact(B, p) ==
    IF RestingAt(B, p) = <<>> THEN p \notin DOMAIN B.data_
    ELSE /\ p \in DOMAIN B.data_
         /\ B.data_[p].count_ = Len(RestingAt(B, p))
         /\ B.data_[p].quantity_ = SumRemaining(B.pool, RestingAt(B, p))

\* how often id occurs in the queues of a side map
Occurrences(side, id) ==
    Cardinality(UNION {{<<p, i>> : i \in {j \in 1..Len(side[p]) : side[p][j] = id}} :
                         p \in DOMAIN side})

QueuedIds(side) == UNION {{side[p][i] : i \in 1..Len(side[p])} : p \in DOMAIN side}

RECURSIVE TotalLength(_, _)
TotalLength(side, prices) ==
    IF prices = {} THEN 0
    ELSE LET p == CHOOSE x \in prices : TRUE
         IN  Len(side[p]) + TotalLength(side, prices \ {p})

RECURSIVE Executed(_)
Executed(trades) ==
    IF trades = <<>> THEN 0
    ELSE Head(trades).bidTrade_.quantity_ + Executed(Tail(trades))

Opposite(B, side) == IF side = Buy THEN B.asks_ ELSE B.bids_

PartlyFilled(id) ==
    /\ pool[id].remainingQuantity_ >= 1
    /\ pool[id].remainingQuantity_ < pool[id].initialQuantity_

\* C1: in every state the commands leave, every bid price is below every
\* ask price, so the best bid is below the best ask when both sides hold
\* orders.
C1_BestBidBelowBestAsk ==
    \A b \in DOMAIN bids_, a \in DOMAIN asks_ : b < a

\* a match has run and has left orders on both sides
C1_Witness ==
    /\ DOMAIN bids_ # {}
    /\ DOMAIN asks_ # {}
    /\ \E id \in orders_ : PartlyFilled(id)

\* C2: every price at which an order rests has an entry in data_ with the
\* number of the orders resting there and the sum of what remains of them.
C2_RestingLevelsAreCounted ==
    \A p \in (DOMAIN bids_) \cup (DOMAIN asks_) :
        /\ p \in DOMAIN data_
        /\ data_[p].count_ = Len(RestingAt(TheBook, p))
        /\ data_[p].quantity_ = SumRemaining(pool, RestingAt(TheBook, p))

\* C3: every entry of data_ belongs to a price at which orders rest, with
\* their number and the sum of what remains of them; no count and no
\* quantity has wrapped below zero.
C3_EntriesHaveRestingOrders ==
    \A p \in DOMAIN data_ :
        /\ RestingAt(TheBook, p) # <<>>
        /\ data_[p].count_ = Len(RestingAt(TheBook, p))
        /\ data_[p].quantity_ = SumRemaining(pool, RestingAt(TheBook, p))
        /\ data_[p].count_ >= 0
        /\ data_[p].quantity_ >= 0

\* C4: when AddOrder of a FillAndKill order with a new id returns, the order
\* is in no queue and not in the id index, and data_ holds nothing of it:
\* the entry of its price is that of the orders that rest there.
C4_FillAndKillNeverRests ==
    \A o \in NewOrders :
        (o.orderType_ = FillAndKill /\ o.orderId_ \notin orders_) =>
          \A r \in AddOrderResults(TheBook, o) :
              r.outcome = "returned" =>
                /\ o.orderId_ \notin r.book.orders_
                /\ o.orderId_ \notin QueuedIds(r.book.bids_)
                                       \cup QueuedIds(r.book.asks_)
                /\ LevelExact(TheBook, o.price_)
                      => LevelExact(r.book, o.price_)

\* C5: every AddOrder call returns with ordersMutex_ released, and never
\* locks ordersMutex_ while it holds it.
C5_AddOrderNeverRelocks ==
    /\ ordersMutex_ = "free"
    /\ \A o \in NewOrders :
          \A r \in AddOrderResults(TheBook, o) :
              r.outcome = "returned" /\ ~r.relock

\* C6: AddOrder of a FillOrKill order either makes no trade and leaves the
\* engine as it was, or its trades fill the whole order; the order never
\* rests.
C6_FillOrKillAllOrNothing ==
    \A o \in NewOrders :
        o.orderType_ = FillOrKill =>
          \A r \in AddOrderResults(TheBook, o) :
              r.outcome = "returned" =>
                /\ \/ r.trades = <<>> /\ r.book = TheBook
                   \/ Executed(r.trades) = o.initialQuantity_
                /\ o.orderId_ \notin orders_ =>
                      o.orderId_ \notin r.book.orders_

\* the remaining quantity of the orders an order of `side` at limit `price`
\* can trade with
ReachableQuantity(B, side, price) ==
    LET levels == {p \in DOMAIN Opposite(B, side) :
                     IF side = Buy THEN p <= price ELSE p >= price}
        ids == UNION {{Opposite(B, side)[p][i] :
                         i \in 1..Len(Opposite(B, side)[p])} : p \in levels}
        RECURSIVE Sum(_)
        Sum(S) == IF S = {} THEN 0
                  ELSE LET id == CHOOSE x \in S : TRUE
                       IN  B.pool[id].remainingQuantity_ + Sum(S \ {id})
    IN  Sum(ids)

\* C7: CanFullyFill(side, L, q) is true exactly when the orders of the other
\* side at the prices the limit L reaches have q or more left.
C7_CanFullyFillIsExact ==
    \A side \in Sides, price \in Prices, quantity \in Quantities,
       up \in BOOLEAN :
        CanFullyFill(TheBook, side, price, quantity, up)
          <=> ReachableQuantity(TheBook, side, price) >= quantity

\* C8: no order of type Market is in bids_, asks_ or orders_; AddOrder drops
\* a Market order when the other side is empty and otherwise places it as
\* GoodTillCancel at the highest ask (Buy) or the lowest bid (Sell).
C8_NoMarketOrderOnTheBook ==
    /\ \A id \in orders_ \cup QueuedIds(bids_) \cup QueuedIds(asks_) :
          pool[id].orderType_ # Market
    /\ \A o \in NewOrders :
          (o.orderType_ = Market /\ o.orderId_ \notin orders_) =>
            \A r \in AddOrderResults(TheBook, o) :
                IF DOMAIN Opposite(TheBook, o.side_) = {}
                THEN r.book = TheBook /\ r.trades = <<>>
                ELSE LET worst == IF o.side_ = Buy THEN SetMax(DOMAIN asks_)
                                  ELSE SetMin(DOMAIN bids_)
                     IN  /\ \A t \in 1..Len(r.trades) :
                              IF o.side_ = Buy
                              THEN r.trades[t].bidTrade_.price_ = worst
                              ELSE r.trades[t].askTrade_.price_ = worst
                         /\ o.orderId_ \in r.book.orders_ =>
                              /\ r.book.pool[o.orderId_].price_ = worst
                              /\ r.book.pool[o.orderId_].orderType_
                                    = GoodTillCancel

\* a Market order that sweeps the other side and rests, as GoodTillCancel,
\* with what is left of it
C8_Witness ==
    \E o \in NewOrders :
        /\ o.orderType_ = Market
        /\ o.orderId_ \notin orders_
        /\ \E r \in AddOrderResults(TheBook, o) :
              /\ r.trades # <<>>
              /\ o.orderId_ \in r.book.orders_
              /\ r.book.pool[o.orderId_].orderType_ = GoodTillCancel

\* The order o given to AddOrder was placed and has been filled: its id was
\* free, and is not in the id index of the book the call leaves.
PlacedAndFilled(o, r) ==
    o.orderId_ \notin orders_ /\ o.orderId_ \notin r.book.orders_

\* C9 as claimed: after AddOrder of a Market order given while the other
\* side holds orders, the order is filled or the other side is empty.
C9_MarketOrderSweeps_AnyId ==
    \A o \in NewOrders :
        (o.orderType_ = Market /\ DOMAIN Opposite(TheBook, o.side_) # {}) =>
          \A r \in AddOrderResults(TheBook, o) :
              \/ PlacedAndFilled(o, r)
              \/ DOMAIN Opposite(r.book, o.side_) = {}

\* C9: the same of a Market order whose id is not the id of a live order.
C9_MarketOrderSweeps ==
    \A o \in NewOrders :
        (/\ o.orderType_ = Market
         /\ o.orderId_ \notin orders_
         /\ DOMAIN Opposite(TheBook, o.side_) # {}) =>
          \A r \in AddOrderResults(TheBook, o) :
              \/ PlacedAndFilled(o, r)
              \/ DOMAIN Opposite(r.book, o.side_) = {}

\* asks at two prices, and a Market buy that takes the lower level whole and
\* a part of the higher one
C9_Witness ==
    /\ Cardinality(DOMAIN asks_) = 2
    /\ \E o \in NewOrders :
          /\ o.orderType_ = Market
          /\ o.side_ = Buy
          /\ o.orderId_ \notin orders_
          /\ \E r \in AddOrderResults(TheBook, o) :
                /\ Len(r.trades) = 2
                /\ r.trades[1].askTrade_.price_ < r.trades[2].askTrade_.price_
                /\ Cardinality(DOMAIN r.book.asks_) = 1
                /\ DOMAIN r.book.bids_ = {}

\* C10: orders_ and the two side maps hold the same orders: every id of
\* orders_ is once in the queue at its price on its side and nowhere else,
\* every queued id is in orders_, and Size() is the length of all queues.
C10_IndexMatchesQueues ==
    /\ \A id \in orders_ :
          /\ id \in DOMAIN pool
          /\ Occurrences(bids_, id) + Occurrences(asks_, id) = 1
          /\ LET mine == IF pool[id].side_ = Buy THEN bids_ ELSE asks_
             IN  /\ pool[id].price_ \in DOMAIN mine
                 /\ \E i \in 1..Len(mine[pool[id].price_]) :
                       mine[pool[id].price_][i] = id
    /\ QueuedIds(bids_) \cup QueuedIds(asks_) \subseteq orders_
    /\ Size(TheBook) = TotalLength(bids_, DOMAIN bids_)
                         + TotalLength(asks_, DOMAIN asks_)

\* a match has filled and removed one order and left the other resting
C10_Witness ==
    /\ Cardinality(orders_) = MaxResting
    /\ \E id \in orders_ : PartlyFilled(id)

\* no queue of a side map of book B is empty
NoEmptyLevel(B) ==
    /\ \A p \in DOMAIN B.bids_ : B.bids_[p] # <<>>
    /\ \A p \in DOMAIN B.asks_ : B.asks_[p] # <<>>

\* the side map of B in which order id rests
SideOf(B, id) == IF B.pool[id].side_ = Buy THEN B.bids_ ELSE B.asks_

\* C11: no price of bids_ or asks_ has an empty queue, in every state a
\* command leaves; the price of an order that is alone in its queue leaves
\* the side map when the order is cancelled, and so does a price whose last
\* order is filled.
C11_NoEmptyLevel ==
    /\ NoEmptyLevel(TheBook)
    /\ \A id \in orders_ :
          Len(SideOf(TheBook, id)[pool[id].price_]) = 1 =>
            LET B1 == CancelOrderInternal(TheBook, id)
            IN  pool[id].price_ \notin
                  DOMAIN (IF pool[id].side_ = Buy THEN B1.bids_ ELSE B1.asks_)
    /\ \A o \in NewOrders :
          \A r \in AddOrderResults(TheBook, o) : NoEmptyLevel(r.book)
    /\ \A B \in PruneGoodForDayOrders(TheBook) : NoEmptyLevel(B)

\* an order fills the only order of a price, and the price leaves its side
C11_Witness ==
    \E o \in NewOrders :
        /\ o.orderId_ \notin orders_
        /\ \E r \in AddOrderResults(TheBook, o) :
              /\ r.trades # <<>>
              /\ \E p \in DOMAIN Opposite(TheBook, o.side_) :
                    /\ Len(Opposite(TheBook, o.side_)[p]) = 1
                    /\ p \notin DOMAIN Opposite(r.book, o.side_)

\* order o does not cross the best price of the other side of book B
DoesNotCross(B, o) ==
    \/ DOMAIN Opposite(B, o.side_) = {}
    \/ o.side_ = Buy /\ \A p \in DOMAIN B.asks_ : o.price_ < p
    \/ o.side_ = Sell /\ \A p \in DOMAIN B.bids_ : o.price_ > p

\* the call returned without a trade and left the book as it was
Unchanged(r) ==
    r = Result(TheBook, <<>>, "returned", FALSE)

\* C12: AddOrder of a FillAndKill order that does not cross the best price of
\* the other side, of a FillOrKill order for which CanFullyFill is false, or
\* of a Market order when the other side is empty returns no trade and
\* leaves bids_, asks_, orders_ and data_ as they were.
C12_RejectedOrderChangesNothing ==
    \A o \in NewOrders :
      \A stale \in StaleReads, ub \in RelockOutcomes, up \in BOOLEAN :
        /\ (o.orderType_ = FillAndKill /\ DoesNotCross(TheBook, o))
              => Unchanged(AddOrder(TheBook, o, stale, ub, up))
        /\ (/\ o.orderType_ = FillOrKill
            /\ ~CanFullyFill(TheBook, o.side_, o.price_, o.initialQuantity_, up))
              => Unchanged(AddOrder(TheBook, o, stale, ub, up))
        /\ (o.orderType_ = Market /\ DOMAIN Opposite(TheBook, o.side_) = {})
              => Unchanged(AddOrder(TheBook, o, stale, ub, up))

\* orders rest on both sides, and a FillAndKill order with a new id that
\* falls short of the best price of the other side is turned away, and so
\* is a FillOrKill order that crosses but asks for more than rests
C12_Witness ==
    /\ DOMAIN bids_ # {}
    /\ DOMAIN asks_ # {}
    /\ \E o \in NewOrders :
          /\ o.orderType_ = FillAndKill
          /\ o.orderId_ \notin orders_
          /\ DoesNotCross(TheBook, o)
          /\ \A r \in AddOrderResults(TheBook, o) : Unchanged(r)
    /\ \E o \in NewOrders :
          /\ o.orderType_ = FillOrKill
          /\ o.orderId_ \notin orders_
          /\ ~DoesNotCross(TheBook, o)
          /\ ~CanFullyFill(TheBook, o.side_, o.price_, o.initialQuantity_, TRUE)
          /\ \A r \in AddOrderResults(TheBook, o) : Unchanged(r)

\* C13: AddOrder with the id of a live order, CancelOrder of an id that is
\* not live and ModifyOrder of an id that is not live return, without a
\* trade, and leave the engine as it was; a second CancelOrder of the same
\* id changes nothing more.
C13_NoOpsChangeNothing ==
    /\ \A o \in NewOrders :
          o.orderId_ \in orders_ =>
            \A r \in AddOrderResults(TheBook, o) : Unchanged(r)
    /\ \A id \in OrderIds \ orders_ :
          /\ CancelOrderInternal(TheBook, id) = TheBook
          /\ \A side \in Sides, price \in Prices, quantity \in Quantities :
                \A r \in ModifyOrderResults(TheBook, id, side, price, quantity) :
                    Unchanged(r)
    /\ \A id \in OrderIds :
          CancelOrderInternal(CancelOrderInternal(TheBook, id), id)
            = CancelOrderInternal(TheBook, id)

\* one id is live and another is not, and an order with the live id is
\* turned away although it would trade
C13_Witness ==
    /\ orders_ # {}
    /\ OrderIds \ orders_ # {}
    /\ \E o \in NewOrders :
          /\ o.orderId_ \in orders_
          /\ ~DoesNotCross(TheBook, o)
          /\ \A r \in AddOrderResults(TheBook, o) : Unchanged(r)

\* the queue q without the ids of S, the others in their order
Without(q, S) == SelectSeq(q, LAMBDA x : x \notin S)

\* the side map `after` is the side map `before` without the ids of S: the
\* other ids are at their prices, in the order they had
SideWithout(before, after, S) ==
    /\ DOMAIN after \subseteq DOMAIN before
    /\ \A p \in DOMAIN before :
          Without(before[p], S)
            = (IF p \in DOMAIN after THEN after[p] ELSE <<>>)

\* book B1 is TheBook without the orders of S: they are in no queue and not
\* in the id index, and every other order is as it was
BookWithout(B1, S) ==
    /\ B1.orders_ = orders_ \ S
    /\ SideWithout(bids_, B1.bids_, S)
    /\ SideWithout(asks_, B1.asks_, S)
    /\ \A id \in orders_ \ S : B1.pool[id] = pool[id]

\* C14: CancelOrder of a live id takes that order out of its queue and out
\* of orders_; every other order keeps its side, price, remaining quantity
\* and its place among the others of its queue.
C14_CancelRemovesOnlyThatOrder ==
    \A id \in orders_ : BookWithout(CancelOrderInternal(TheBook, id), {id})

\* two orders share a queue, and the one behind can be cancelled
C14_Witness ==
    \E p \in Prices :
        /\ p \in DOMAIN bids_
        /\ Len(bids_[p]) = 2
        /\ CancelOrderInternal(TheBook, bids_[p][2]).bids_[p] = <<bids_[p][1]>>

\* C15, for an order with a new id, given while no call is blocked: when
\* AddOrder(o) returns no trade, CancelOrder(o.id) after it leaves bids_, asks_, orders_ and data_ as they
\* were before the AddOrder.
C15_AddThenCancelRestores ==
    \A o \in NewOrders :
        o.orderId_ \notin orders_ =>
          \A r \in AddOrderResults(TheBook, o) :
              (ordersMutex_ = "free" /\ r.outcome = "returned"
                 /\ r.trades = <<>>) =>
                CancelOrderInternal(r.book, o.orderId_) = TheBook

\* The trades of a matching run from m, each with the state before it and
\* the state after it.
RECURSIVE TradeSteps(_, _)
TradeSteps(m, stale) ==
    IF DOMAIN m.book.bids_ = {} \/ DOMAIN m.book.asks_ = {} THEN {}
    ELSE
      LET bidPrice == BestBid(m.book)
          askPrice == BestAsk(m.book)
      IN  IF StopsMatching(bidPrice, askPrice) THEN {}
          ELSE IF m.book.bids_[bidPrice] = <<>> \/ m.book.asks_[askPrice] = <<>>
          THEN TradeSteps(EraseEmptyLevels(m, bidPrice, askPrice, stale), stale)
          ELSE {<<m, MatchHeads(m, bidPrice, askPrice)>>}
                 \cup TradeSteps(MatchHeads(m, bidPrice, askPrice), stale)

\* the trades of every AddOrder that can be called on TheBook
AllTradeSteps ==
    UNION {TradeSteps(Matching(B2, <<>>), stale) :
             B2 \in UNION {AddOrderPlace(TheBook, o, up) :
                             o \in NewOrders, up \in BOOLEAN},
             stale \in StaleReads}

LevelQuantity(B, price) ==
    IF price \in DOMAIN B.data_ THEN B.data_[price].quantity_ ELSE 0

Remaining(B, id) ==
    IF id \in DOMAIN B.pool THEN B.pool[id].remainingQuantity_ ELSE 0

LastTrade(m) == m.trades[Len(m.trades)]

\* C16, for the trades between a bid and an ask of different prices: the two
\* records of a trade carry one quantity, which is what the bid order and
\* the ask order lose of their remaining quantity and what data_ loses at
\* the price of the bid and at the price of the ask.
C16_TradeConservation ==
    \A s \in AllTradeSteps :
        LET trade == LastTrade(s[2])
            bid == trade.bidTrade_
            ask == trade.askTrade_
        IN  bid.price_ # ask.price_ =>
              /\ bid.quantity_ = ask.quantity_
              /\ Remaining(s[1].book, bid.orderId_)
                   - Remaining(s[2].book, bid.orderId_) = bid.quantity_
              /\ Remaining(s[1].book, ask.orderId_)
                   - Remaining(s[2].book, ask.orderId_) = bid.quantity_
              /\ LevelQuantity(s[1].book, bid.price_)
                   - LevelQuantity(s[2].book, bid.price_) = bid.quantity_
              /\ LevelQuantity(s[1].book, ask.price_)
                   - LevelQuantity(s[2].book, ask.price_) = bid.quantity_

\* C17: ModifyOrder of a live id leaves the states and returns the trades
\* that AddOrder leaves and returns after CancelOrder of the id, for the
\* order with the same id, the type the order had, and the side, price and
\* quantity of the request.
C17_ModifyIsCancelThenAdd ==
    \A id \in orders_, side \in Sides, price \in Prices,
       quantity \in Quantities :
        ModifyOrderResults(TheBook, id, side, price, quantity)
          = AddOrderResults(CancelOrderInternal(TheBook, id),
                            Order(pool[id].orderType_, id, side, price,
                                  quantity))

\* a GoodForDay bid alone on the book, which ModifyOrder turns into one
\* GoodForDay ask
C17_Witness ==
    /\ DOMAIN asks_ = {}
    /\ \E id \in orders_ :
          /\ orders_ = {id}
          /\ pool[id].orderType_ = GoodForDay
          /\ \E price \in Prices, quantity \in Quantities :
               \E r \in ModifyOrderResults(TheBook, id, Sell, price, quantity) :
                  /\ DOMAIN r.book.bids_ = {}
                  /\ r.book.asks_ = MapPut(EmptyMap, price, <<id>>)
                  /\ r.book.pool[id].orderType_ = GoodForDay
                  /\ r.trades = <<>>

\* C20: a pass of the pruner that no command interrupts cancels the
\* GoodForDay orders and no other: no GoodForDay order is left, and every
\* other order is as it was.
C20_PruneCancelsGoodForDayOnly ==
    \A B \in PruneGoodForDayOrders(TheBook) :
        /\ \A id \in B.orders_ : B.pool[id].orderType_ # GoodForDay
        /\ BookWithout(B, {id \in orders_ : pool[id].orderType_ = GoodForDay})

\* a GoodForDay order ahead of another order in one queue: the pass leaves
\* the other alone in the queue
C20_Witness ==
    \E p \in DOMAIN asks_ :
        /\ Len(asks_[p]) = 2
        /\ pool[asks_[p][1]].orderType_ = GoodForDay
        /\ pool[asks_[p][2]].orderType_ = GoodTillCancel
        /\ \A B \in PruneGoodForDayOrders(TheBook) :
              B.asks_ = MapPut(EmptyMap, p, <<asks_[p][2]>>)

\* C18: while ModifyOrder is between its lookup and the return of its
\* AddOrder, no command of another thread takes effect: every step taken
\* then is the next step of ModifyOrder.
C18_ModifyOrderIsAtomic ==
    [][modifying.pc # "idle" => modifying'.pc # modifying.pc]_vars

\* the bids (asks) of a snapshot are at or above (below) every ask (bid)
Crossed(infos) ==
    \E b \in 1..Len(infos.bids_), a \in 1..Len(infos.asks_) :
        infos.bids_[b].price_ >= infos.asks_[a].price_

\* C19: what GetOrderInfos returns is the book between two whole
\* operations: it is read while no AddOrder is between placing its order
\* and matching it, and no bid of it is at or above an ask of it.
C19_SnapshotBetweenOperations ==
    snapshot # <<>> =>
        /\ ordersMutex_ = "free"
        /\ ~Crossed(snapshot[1])

\* the places where the pruning thread asks for ordersMutex_
PrunerLockPoints == {"deadline", "timeout", "no_timeout", "scan", "CancelOrders"}

\* C21: the pruning thread never asks for ordersMutex_ while it holds it,
\* so it does not hold it when it calls CancelOrders; the scan and
\* CancelOrders each lock and unlock it, and a pass that has started its
\* scan comes back to the start of the loop.
C21_PrunePassNeverSelfDeadlocks ==
    /\ [](pruner.pc \in PrunerLockPoints => ordersMutex_ # "pruner")
    /\ (pruner.pc = "scan" ~> pruner.pc = "deadline")

\* the thread is about to call CancelOrders with ids it has collected
C21_Witness ==
    /\ pruner.pc = "CancelOrders"
    /\ pruner.orderIds # <<>>
    /\ ordersMutex_ = "free"

\* C22: once the destructor has set shutdown_ and called notify_one, the
\* pruning thread is not left blocked in its timed wait: wherever it was,
\* it returns without waiting for the deadline.
C22_ShutdownWakesThePruner ==
    destructor \in {"join", "joined"} => pruner.pc # "waiting"

\* C23: after shutdown_ has been set the pruning thread takes neither the
\* step that scans orders_ for GoodForDay orders nor the step that cancels
\* the collected ids.
C23_NoPruningAfterShutdown ==
    [][shutdown_ => /\ ~(pruner.pc = "scan" /\ pruner'.pc = "CancelOrders")
                    /\ ~(pruner.pc = "CancelOrders" /\ pruner'.pc = "deadline")]_vars

\* C24: when the destructor has set shutdown_ and called notify_one, the
\* pruning thread eventually returns and join returns, provided every
\* thread that can run does run, a pending timed wait times out and the
\* mutex is granted to a thread that waits for it.
C24_TeardownTerminates ==
    destructor = "join" ~> (pruner.pc = "exited" /\ destructor = "joined")

\* join has returned after a notify_one that woke nobody: the thread left
\* at a later test of the flag
C24_Witness ==
    /\ destructor = "joined"
    /\ pruner.pc = "exited"
    /\ shutdown_
    /\ orders_ # {}

\* C29: every order the pruning thread's CancelOrders removes is GoodForDay
\* at the moment it is removed, whatever other threads did between the
\* scan and CancelOrders.
C29_PrunerCancelsGoodForDayOnly ==
    [][(pruner.pc = "CancelOrders" /\ pruner'.pc = "deadline") =>
          \A id \in orders_ \ orders_' : pool[id].orderType_ = GoodForDay]_vars

\* C30: the pruning thread has returned only if the engine has been shut
\* down: while shutdown_ is not set the thread is alive, so a wakeup of the
\* timed wait that is not the destructor's does not end pruning.
C30_PrunerAliveUntilShutdown ==
    pruner.pc = "exited" => shutdown_

\* the head of the best level of each side of book B
BestHeads(B) ==
    (IF DOMAIN B.bids_ = {} \/ B.bids_[BestBid(B)] = <<>> THEN {}
     ELSE {Head(B.bids_[BestBid(B)])})
    \cup (IF DOMAIN B.asks_ = {} \/ B.asks_[BestAsk(B)] = <<>> THEN {}
          ELSE {Head(B.asks_[BestAsk(B)])})

\* the queue that holds id in book B
QueueOf(B, id) == SideOf(B, id)[B.pool[id].price_]

\* id is the last of its queue in book B
AtTail(B, id) == QueueOf(B, id)[Len(QueueOf(B, id))] = id

\* C25: an order loses remaining quantity in a trade only while it is the
\* head of the best level of its side; of two orders in one queue the later
\* one is touched by an AddOrder only if that AddOrder removed the earlier
\* one; an order that AddOrder leaves on the book is the last of its queue,
\* and so is an order that ModifyOrder leaves on the book, also when its
\* side and price are unchanged.
C25_PriceTimePriority ==
    /\ \A s \in AllTradeSteps :
          \A id \in DOMAIN s[1].book.pool :
              Remaining(s[2].book, id) # Remaining(s[1].book, id) =>
                id \in BestHeads(s[1].book)
    /\ \A o \in NewOrders :
          \A r \in AddOrderResults(TheBook, o) :
              /\ \A p \in DOMAIN bids_ \cup DOMAIN asks_ :
                    \A i, j \in 1..Len(RestingAt(TheBook, p)) :
                        (i < j /\ Remaining(r.book, RestingAt(TheBook, p)[j])
                                    # Remaining(TheBook, RestingAt(TheBook, p)[j]))
                          => RestingAt(TheBook, p)[i] \notin r.book.orders_
              /\ (o.orderId_ \notin orders_ /\ o.orderId_ \in r.book.orders_)
                    => AtTail(r.book, o.orderId_)
    /\ \A id \in orders_, side \in Sides, price \in Prices,
          quantity \in Quantities :
          \A r \in ModifyOrderResults(TheBook, id, side, price, quantity) :
              id \in r.book.orders_ => AtTail(r.book, id)

\* two orders wait in one queue, the first partly filled and the second
\* untouched, and ModifyOrder of the first with its side and price puts it
\* behind the second
C25_Witness ==
    \E p \in DOMAIN bids_ :
        /\ Len(bids_[p]) = 2
        /\ PartlyFilled(bids_[p][1])
        /\ ~PartlyFilled(bids_[p][2])
        /\ \E r \in ModifyOrderResults(TheBook, bids_[p][1], Buy, p, 1) :
              r.book.bids_[p] = <<bids_[p][2], bids_[p][1]>>

\* C26: each trade of a matching run is made by the head of the best bid
\* level and the head of the best ask level; it is one more trade, for the
\* smaller of the two remaining quantities, whose bid record carries the
\* bid's id and the bid's own price and whose ask record carries the ask's
\* id and the ask's own price; and the book AddOrder leaves has an empty
\* side or a best bid below its best ask.
C26_MatchingStep ==
    /\ \A s \in AllTradeSteps :
          LET B == s[1].book
              bid == B.pool[Head(B.bids_[BestBid(B)])]
              ask == B.pool[Head(B.asks_[BestAsk(B)])]
              quantity == IF bid.remainingQuantity_ <= ask.remainingQuantity_
                          THEN bid.remainingQuantity_
                          ELSE ask.remainingQuantity_
          IN  /\ s[2].trades
                   = Append(s[1].trades,
                            [bidTrade_ |-> TradeInfo(bid.orderId_, bid.price_,
                                                     quantity),
                             askTrade_ |-> TradeInfo(ask.orderId_, ask.price_,
                                                     quantity)])
              /\ Remaining(s[2].book, bid.orderId_)
                   = bid.remainingQuantity_ - quantity
              /\ Remaining(s[2].book, ask.orderId_)
                   = ask.remainingQuantity_ - quantity
    /\ \A o \in NewOrders :
          \A r \in AddOrderResults(TheBook, o) :
              \/ DOMAIN r.book.bids_ = {}
              \/ DOMAIN r.book.asks_ = {}
              \/ BestBid(r.book) < BestAsk(r.book)

\* a partly filled bid rests, and a Sell order given now trades with it at
\* a price of its own below the bid's
C26_Witness ==
    /\ DOMAIN bids_ # {}
    /\ \E s \in AllTradeSteps :
          /\ LastTrade(s[2]).bidTrade_.price_ > LastTrade(s[2]).askTrade_.price_
          /\ LastTrade(s[2]).bidTrade_.quantity_ = 1
          /\ PartlyFilled(LastTrade(s[2]).bidTrade_.orderId_)

\* C27: in every trade AddOrder makes for the order it is given, the
\* order is the bid when it is a Buy order and the ask when it is a Sell
\* order, the quantity of both records is at least 1 and the bid price is
\* at or above the ask price; the quantities of the trades add up to at
\* most the quantity of the order.
C27_TradesOfTheAddedOrder ==
    \A o \in NewOrders :
        \A r \in AddOrderResults(TheBook, o) :
            /\ \A i \in 1..Len(r.trades) :
                  /\ (IF o.side_ = Buy THEN r.trades[i].bidTrade_.orderId_
                      ELSE r.trades[i].askTrade_.orderId_) = o.orderId_
                  /\ r.trades[i].bidTrade_.quantity_ >= 1
                  /\ r.trades[i].askTrade_.quantity_ >= 1
                  /\ r.trades[i].bidTrade_.price_ >= r.trades[i].askTrade_.price_
            /\ Executed(r.trades) <= o.initialQuantity_

\* two asks rest at two prices, and a Buy order given now trades with both
C27_Witness ==
    /\ Cardinality(DOMAIN asks_) = 2
    /\ \E o \in NewOrders :
          \E r \in AddOrderResults(TheBook, o) :
              /\ Len(r.trades) = 2
              /\ Executed(r.trades) = o.initialQuantity_

\* C28: every order on the book has a remaining quantity of at least 1 and
\* at most its initial quantity; every Fill of a matching run is for at
\* most the remaining quantity of the bid and of the ask it fills; and
\* AddOrder converts with ToGoodTillCancel an order of type Market only.
C28_RemainingWithinBounds ==
    /\ \A id \in orders_ :
          /\ 1 <= pool[id].remainingQuantity_
          /\ pool[id].remainingQuantity_ <= pool[id].initialQuantity_
    /\ \A s \in AllTradeSteps :
          /\ LastTrade(s[2]).bidTrade_.quantity_
               <= Remaining(s[1].book, LastTrade(s[2]).bidTrade_.orderId_)
          /\ LastTrade(s[2]).askTrade_.quantity_
               <= Remaining(s[1].book, LastTrade(s[2]).askTrade_.orderId_)
    /\ \A o \in NewOrders :
          ConvertMarket(TheBook, o) \notin {{}, {o}} => o.orderType_ = Market

\* a partly filled order rests, and an order given now fills it
C28_Witness ==
    \E id \in orders_ :
        /\ PartlyFilled(id)
        /\ \E s \in AllTradeSteps :
              /\ id \in s[1].book.orders_
              /\ id \notin s[2].book.orders_

====
